---- MODULE Spec2Model ----
(***************************************************************************)
(* A model of dbt/adapters/snowflake/impl.py (SnowflakeAdapter):           *)
(*   - _make_match_kwargs                      (specification SpecNorm)    *)
(*   - pre_model_hook / post_model_hook        (specification SpecHook)    *)
(*   - list_relations_without_caching          (specification SpecList)    *)
(*   - set_relations_cache and a reader thread (specification SpecCache)   *)
(*                                                                         *)
(* Python strings are sequences of one-character strings, so that          *)
(* str.upper() and str.lower() are computed character by character.        *)
(* An Optional[...] value is a set with at most one element: None is {}.   *)
(***************************************************************************)
EXTENDS Integers, Sequences, FiniteSets, TLC

VARIABLES
    \* _make_match_kwargs
    quoting, args, result, result2,
    \* pre_model_hook / post_model_hook
    default_warehouse, config, active, hpc, context, before, during, sqlLog,
    \* list_relations_without_caching
    schema_relation, lrOutcome, created,
    \* set_relations_cache
    relations, schemas, lockOwner, pc, cache_schemas, clear, todo, curDb,
    queries, listed, added, pre, outcome, macroExc, error, updates, readerPc

normVars == <<quoting, args, result, result2>>
hookVars == <<default_warehouse, config, active, hpc, context, before, during, sqlLog>>
listVars == <<schema_relation, lrOutcome, created>>
cacheVars == <<relations, schemas, lockOwner, pc, cache_schemas, clear, todo, curDb,
               queries, listed, added, pre, outcome, macroExc, error, updates,
               readerPc>>
vars == <<normVars, hookVars, listVars, cacheVars>>

\* ------------------------------------------------------------------ bounds

\* longest identifier part given to _make_match_kwargs
MaxLen == 2
\* most (database, schema) pairs one manifest asks for
MaxSchemas == 2
\* most rows one per-schema listing returns
MaxListRows == 2

\* ------------------------------------------------------- Python values

None == {}
Some(v) == {v}
\* the value of a present Optional
The(o) == CHOOSE v \in o : TRUE

\* the letters; every other character has no case
LowerLetters == <<"a", "b", "c", "d", "e", "f", "g", "h", "i", "j", "k", "l", "m",
                  "n", "o", "p", "q", "r", "s", "t", "u", "v", "w", "x", "y", "z">>
UpperLetters == <<"A", "B", "C", "D", "E", "F", "G", "H", "I", "J", "K", "L", "M",
                  "N", "O", "P", "Q", "R", "S", "T", "U", "V", "W", "X", "Y", "Z">>

UpperChar(c) ==
    IF \E i \in DOMAIN LowerLetters : LowerLetters[i] = c
    THEN UpperLetters[CHOOSE i \in DOMAIN LowerLetters : LowerLetters[i] = c]
    ELSE c

LowerChar(c) ==
    IF \E i \in DOMAIN UpperLetters : UpperLetters[i] = c
    THEN LowerLetters[CHOOSE i \in DOMAIN UpperLetters : UpperLetters[i] = c]
    ELSE c

\* str.upper()
Upper(s) == [i \in DOMAIN s |-> UpperChar(s[i])]

\* str.lower()
Lower(s) == [i \in DOMAIN s |-> LowerChar(s[i])]

\* the strings of length at most n over the characters cs
Strings(cs, n) == UNION { [1..k -> cs] : k \in 0..n }

\* the variables of the parts a specification leaves out stay at these values
NormOff == quoting = None /\ args = None /\ result = None /\ result2 = None

HookOff ==
    /\ default_warehouse = None /\ config = None /\ active = None /\ hpc = "off"
    /\ context = None /\ before = None /\ during = None /\ sqlLog = <<>>

ListOff == schema_relation = None /\ lrOutcome = None /\ created = 0

CacheOff ==
    /\ relations = <<>> /\ schemas = {} /\ lockOwner = None /\ pc = "off"
    /\ cache_schemas = {} /\ clear = FALSE /\ todo = {} /\ curDb = None
    /\ queries = <<>> /\ listed = {} /\ added = {} /\ pre = None
    /\ outcome = "none" /\ macroExc = None /\ error = None /\ updates = 0
    /\ readerPc = "off"

\* ------------------------------------------------- _make_match_kwargs

MatchKeys == {"identifier", "schema", "database"}

\* dbt.utils.filter_null_values: the entries whose value is not None
filter_null_values(d) == [k \in {x \in DOMAIN d : d[x] # None} |-> The(d[k])]

\* a faulty variant: the schema is folded by the identifier's quoting flag
MakeMatchKwargsWrongFlag(q, database, schema, identifier) ==
    LET identifier2 == IF identifier # None /\ q["identifier"] = FALSE
                       THEN Some(Upper(The(identifier))) ELSE identifier
        schema2 == IF schema # None /\ q["identifier"] = FALSE
                   THEN Some(Upper(The(schema))) ELSE schema
        database2 == IF database # None /\ q["database"] = FALSE
                     THEN Some(Upper(The(database))) ELSE database
    IN  filter_null_values([identifier |-> identifier2, schema |-> schema2,
                            database |-> database2])

_make_match_kwargs(q, database, schema, identifier) ==
    LET identifier2 == IF identifier # None /\ q["identifier"] = FALSE
                       THEN Some(Upper(The(identifier))) ELSE identifier
        schema2 == IF schema # None /\ q["schema"] = FALSE
                   THEN Some(Upper(The(schema))) ELSE schema
        database2 == IF database # None /\ q["database"] = FALSE
                     THEN Some(Upper(The(database))) ELSE database
    IN  filter_null_values([identifier |-> identifier2, schema |-> schema2,
                            database |-> database2])

\* dict.get(k): None for a missing key
Get(d, k) == IF k \in DOMAIN d THEN Some(d[k]) ELSE None

NormChars == {"a", "B"}
NormInputs == { None } \cup { Some(s) : s \in Strings(NormChars, MaxLen) }

InitNorm ==
    /\ quoting \in [MatchKeys -> BOOLEAN]
    /\ args \in [MatchKeys -> NormInputs]
    /\ result = None
    /\ result2 = None
    /\ HookOff /\ ListOff /\ CacheOff

\* one call of _make_match_kwargs(database, schema, identifier)
MakeMatchKwargs ==
    /\ result = None
    /\ result' = Some(_make_match_kwargs(quoting, args["database"], args["schema"],
                                         args["identifier"]))
    /\ UNCHANGED <<quoting, args, result2, hookVars, listVars, cacheVars>>

\* a second call, on the components of the first call's result
MakeMatchKwargsAgain ==
    /\ result # None
    /\ result2 = None
    /\ LET r == The(result)
       IN  result2' = Some(_make_match_kwargs(quoting, Get(r, "database"),
                                              Get(r, "schema"), Get(r, "identifier")))
    /\ UNCHANGED <<quoting, args, result, hookVars, listVars, cacheVars>>

NextNorm == MakeMatchKwargs \/ MakeMatchKwargsAgain

SpecNorm == InitNorm /\ [][NextNorm]_vars

\* C10: _make_match_kwargs upper-cases exactly the present components whose
\* quoting flag is false, leaves the present components whose flag is true
\* unchanged, leaves absent components out of the result, and applied to its
\* own result returns that result again.
C10_Normalize ==
    /\ result # None =>
         \A k \in MatchKeys :
            /\ (args[k] = None) <=> (k \notin DOMAIN The(result))
            /\ args[k] # None =>
                 LET s == The(args[k])
                     r == The(result)[k]
                 IN  IF quoting[k]
                     THEN r = s
                     ELSE /\ Len(r) = Len(s)
                          /\ \A i \in 1..Len(s) : r[i] = UpperChar(s[i])
    /\ result2 # None => result2 = result

\* a folded lower-case schema, a quoted identifier with a lower-case letter,
\* an absent database, and the second application done
C10_Witness ==
    /\ result2 # None
    /\ ~quoting["schema"] /\ quoting["identifier"]
    /\ args["database"] = None
    /\ args["schema"] = Some(<<"a", "B">>)
    /\ args["identifier"] = Some(<<"a">>)
    /\ The(result) = [schema |-> <<"A", "B">>, identifier |-> <<"a">>]

\* ------------------------------------ pre_model_hook / post_model_hook

\* the warehouses that exist in the account
Warehouses == {"WH1", "WH2"}
\* the names a model's config may ask for: WH9 does not exist
RequestedNames == Warehouses \cup {"WH9"}

\* str(v)
PyStr(v) == IF v = None THEN "None" ELSE The(v)

\* config.get(key, dflt)
ConfigGet(c, key, dflt) == IF key \in DOMAIN c THEN c[key] ELSE dflt

\* the configs of an operation: no "snowflake_warehouse" key, the key set to
\* None, or the key set to a name
Configs == { <<>> } \cup { [snowflake_warehouse |-> w] :
                            w \in {None} \cup { Some(n) : n \in RequestedNames } }

\* what "select current_warehouse() as warehouse" fetches: one row holding the
\* session's current warehouse (NULL when it has none); the degenerate tables
\* are the ones _get_warehouse tests for
CurrentWarehouseTables(act) == { << <<act>> >>, <<>>, << <<>> >> }

\* the session runs "use warehouse <name>": it fails unless the warehouse exists
UseSucceeds(name) == name \in Warehouses

SelectSql == "select current_warehouse() as warehouse"
UseSql == "use warehouse {}"

\* a faulty variant: the test for an unspecified warehouse is left out
NoSwitchWithoutNoneTest(warehouse, dflt) == warehouse = dflt

\* pre_model_hook's early return
NoSwitch(warehouse, dflt) == warehouse = dflt \/ warehouse = None

\* _get_warehouse raises RuntimeException on a table with no value
GetWarehouseRaises(table) == Len(table) = 0 \/ Len(table[1]) = 0

\* _get_warehouse's return value
_get_warehouse(table) == PyStr(table[1][1])

\* the session opens on the credentials' warehouse; without one it is on the
\* user's default warehouse or on none
InitHook ==
    /\ default_warehouse \in {None} \cup { Some(w) : w \in Warehouses }
    /\ active \in IF default_warehouse # None THEN {default_warehouse}
                  ELSE {None} \cup { Some(w) : w \in Warehouses }
    /\ config \in Configs
    /\ hpc = "start"
    /\ context = None
    /\ before = active
    /\ during = None
    /\ sqlLog = <<>>
    /\ NormOff /\ ListOff /\ CacheOff

PreModelHook ==
    /\ hpc = "start"
    /\ before' = active
    /\ LET warehouse == ConfigGet(config, "snowflake_warehouse", default_warehouse)
           select == [hook |-> "pre", sql |-> SelectSql, arg |-> ""]
           use == [hook |-> "pre", sql |-> UseSql, arg |-> PyStr(warehouse)]
       IN  IF NoSwitch(warehouse, default_warehouse)
           THEN /\ context' = None
                /\ hpc' = "pre_returned"
                /\ UNCHANGED <<active, sqlLog>>
           ELSE \E table \in CurrentWarehouseTables(active) :
                  IF GetWarehouseRaises(table)
                  THEN /\ hpc' = "pre_raised"
                       /\ sqlLog' = <<select>>
                       /\ UNCHANGED <<active, context>>
                  ELSE IF UseSucceeds(PyStr(warehouse))
                  THEN /\ active' = Some(PyStr(warehouse))
                       /\ context' = Some(_get_warehouse(table))
                       /\ sqlLog' = <<select, use>>
                       /\ hpc' = "pre_returned"
                  ELSE /\ hpc' = "pre_raised"
                       /\ sqlLog' = <<select, use>>
                       /\ UNCHANGED <<active, context>>
    /\ UNCHANGED <<default_warehouse, config, during, normVars, listVars, cacheVars>>

\* the operation the hooks surround; it succeeds or fails and leaves the
\* session's warehouse alone
Operation ==
    /\ hpc = "pre_returned"
    /\ hpc' \in {"op_ok", "op_failed"}
    /\ during' = active
    /\ UNCHANGED <<default_warehouse, config, active, context, before, sqlLog,
                   normVars, listVars, cacheVars>>

PostModelHook ==
    /\ hpc \in {"op_ok", "op_failed"}
    /\ IF context # None
       THEN /\ sqlLog' = Append(sqlLog, [hook |-> "post", sql |-> UseSql,
                                         arg |-> The(context)])
            /\ IF UseSucceeds(The(context))
               THEN /\ active' = context
                    /\ hpc' = "post_returned"
               ELSE /\ hpc' = "post_raised"
                    /\ UNCHANGED active
       ELSE /\ hpc' = "post_returned"
            /\ UNCHANGED <<active, sqlLog>>
    /\ UNCHANGED <<default_warehouse, config, context, before, during,
                   normVars, listVars, cacheVars>>

\* the next operation of the same session, with its own config
NextOperation ==
    /\ hpc \in {"pre_raised", "post_returned", "post_raised"}
    /\ hpc' = "start"
    /\ config' \in Configs
    /\ context' = None
    /\ before' = active
    /\ during' = None
    /\ sqlLog' = <<>>
    /\ UNCHANGED <<default_warehouse, active, normVars, listVars, cacheVars>>

NextHook == PreModelHook \/ Operation \/ PostModelHook \/ NextOperation

SpecHook == InitHook /\ [][NextHook]_vars

\* the warehouse the config asks for is specified and is not the default
RequestedSwitch ==
    /\ "snowflake_warehouse" \in DOMAIN config
    /\ config["snowflake_warehouse"] # None
    /\ config["snowflake_warehouse"] # default_warehouse

PostUses == { i \in DOMAIN sqlLog : sqlLog[i].hook = "post" }

\* C5 (as claimed): once post_model_hook has run with the value
\* pre_model_hook returned, the session's warehouse is the one that was active
\* before pre_model_hook; on the switched path the operation ran on the
\* requested warehouse and the restore command names the warehouse that was
\* active before.
C5_Restored ==
    hpc \in {"post_returned", "post_raised"} =>
        /\ active = before
        /\ context # None =>
             /\ during = config["snowflake_warehouse"]
             /\ \E i \in PostUses : Some(sqlLog[i].arg) = before

\* C6: pre_model_hook returns a saved context exactly when the requested
\* warehouse is specified and differs from the default; returning none it has
\* issued no statement; it raises only on the switching path; and
\* post_model_hook issues a switch command exactly when it is given a saved
\* context.
C6_SwitchIff ==
    /\ hpc \in {"pre_returned", "op_ok", "op_failed", "post_returned", "post_raised"} =>
         /\ (context # None) <=> RequestedSwitch
         /\ context = None => \A i \in DOMAIN sqlLog : sqlLog[i].hook # "pre"
    /\ hpc = "pre_raised" => RequestedSwitch
    /\ hpc \in {"post_returned", "post_raised"} =>
         /\ (PostUses # {}) <=> (context # None)
         /\ \A i \in PostUses : sqlLog[i].sql = UseSql

\* both paths have been taken to the end: a post hook that restored, after an
\* operation that failed
C6_Witness ==
    /\ hpc = "post_returned"
    /\ context = Some("WH1")
    /\ config = [snowflake_warehouse |-> Some("WH2")]
    /\ PostUses # {}

\* ------------------------------------- list_relations_without_caching

\* a sequence holds another as a contiguous part: Python's `part in text`
Contains(text, part) ==
    \E i \in 0..(Len(text) - Len(part)) :
        \A j \in 1..Len(part) : text[i + j] = part[j]

\* the sequences of length at most n over the set S
SeqsUpTo(S, n) == UNION { [1..k -> S] : k \in 0..n }

\* RelationType's values; Relation.External is "external"
RelationTypes == { <<"t", "a", "b", "l", "e">>, <<"v", "i", "e", "w">>, <<"c", "t", "e">>,
                   <<"m", "a", "t", "e", "r", "i", "a", "l", "i", "z", "e", "d",
                     "v", "i", "e", "w">>,
                   <<"e", "x", "t", "e", "r", "n", "a", "l">> }
External == <<"e", "x", "t", "e", "r", "n", "a", "l">>

\* the kinds a listing reports; STAGE is no relation type
Kinds == { <<"T", "A", "B", "L", "E">>, <<"V", "I", "E", "W">>, <<"S", "T", "A", "G", "E">> }

\* try: Relation.get_relation_type(kind.lower())  except ValueError: External
RelationTypeOf(kind) == IF Lower(kind) \in RelationTypes THEN Lower(kind) ELSE External

QuoteAll == [database |-> TRUE, schema |-> TRUE, identifier |-> TRUE]

\* Relation.create(database, schema, identifier, quote_policy, type) of one row
RowToRelation(row) ==
    [database |-> row.database_name, schema |-> row.schema_name,
     identifier |-> row.name, quote_policy |-> QuoteAll,
     type |-> RelationTypeOf(row.kind)]

\* error messages, as words and punctuation marks
ErrorMessages ==
    { <<"SQL", "compilation", "error", ":", "Object", "does", "not", "exist", ",",
        "or", "operation", "cannot", "be", "performed", ".">>,
      <<"Object", "does", "not", "exist">>,
      <<"object", "does", "not", "exist">>,
      <<"Schema", "does", "not", "exist", "or", "not", "authorized", ".">>,
      <<"Statement", "reached", "its", "timeout">> }

ObjectDoesNotExist == <<"Object", "does", "not", "exist">>

\* str(exc) of a dbt exception: its type line, then the message
StrExc(exc) ==
    (IF exc.class = "DatabaseException" THEN <<"Database", "Error", "\n">>
     ELSE <<"Runtime", "Error", "\n">>) \o exc.msg

Exceptions == [class : {"DatabaseException", "RuntimeException"}, msg : ErrorMessages]

ListDatabases == { <<"D", "1">>, <<"D", "2">> }
ListSchemas == { <<"A">>, <<"B">> }
ListNames == { <<"T">>, <<"V">> }

\* what execute_macro(LIST_RELATIONS_MACRO_NAME) does: it returns the rows of
\* the schema's objects or raises
ListMacroOutcomes(sr) ==
    { [raised |-> FALSE, rows |-> rows] :
        rows \in SeqsUpTo([database_name : {sr.database}, schema_name : {sr.schema},
                           name : ListNames, kind : Kinds], MaxListRows) }
    \cup { [raised |-> TRUE, exc |-> e] : e \in Exceptions }

\* a faulty variant: every database error is taken for a missing schema
SuppressedAll(exc) == exc.class = "DatabaseException"

\* the except clause that returns []: a DatabaseException whose text holds
\* "Object does not exist"
Suppressed(exc) ==
    exc.class = "DatabaseException" /\ Contains(StrExc(exc), ObjectDoesNotExist)

InitList ==
    /\ schema_relation \in [database : ListDatabases, schema : ListSchemas]
    /\ lrOutcome = None
    /\ created = 0
    /\ NormOff /\ HookOff /\ CacheOff

\* one call of list_relations_without_caching(schema_relation); lrOutcome
\* keeps what the macro did beside what the call returned or raised, and
\* created counts the calls of Relation.create
ListRelationsWithoutCaching ==
    /\ lrOutcome = None
    /\ \E m \in ListMacroOutcomes(schema_relation) :
         IF m.raised
         THEN /\ created' = 0
              /\ IF Suppressed(m.exc)
                 THEN lrOutcome' = Some([macro |-> m, raised |-> FALSE, value |-> <<>>])
                 ELSE lrOutcome' = Some([macro |-> m, raised |-> TRUE, value |-> m.exc])
         ELSE /\ created' = Len(m.rows)
              /\ lrOutcome' = Some([macro |-> m, raised |-> FALSE,
                                    value |-> [i \in DOMAIN m.rows |-> RowToRelation(m.rows[i])]])
    /\ UNCHANGED <<schema_relation, normVars, hookVars, cacheVars>>

\* the next call, for another schema
ListNextCall ==
    /\ lrOutcome # None
    /\ lrOutcome' = None
    /\ created' = 0
    /\ schema_relation' \in [database : ListDatabases, schema : ListSchemas]
    /\ UNCHANGED <<normVars, hookVars, cacheVars>>

NextList == ListRelationsWithoutCaching \/ ListNextCall

SpecList == InitList /\ [][NextList]_vars

\* C9: when the query raises a database error whose text holds "Object does
\* not exist" the call returns the empty sequence; any other error of the
\* query is raised to the caller as it was; and on both paths no relation is
\* created.
C9_MissingSchema ==
    (lrOutcome # None /\ The(lrOutcome).macro.raised) =>
        LET o == The(lrOutcome)
            exc == o.macro.exc
        IN  /\ created = 0
            /\ IF exc.class = "DatabaseException"
                  /\ Contains(exc.msg, <<"Object", "does", "not", "exist">>)
               THEN ~o.raised /\ o.value = <<>>
               ELSE o.raised /\ o.value = exc

\* a suppressed missing-schema error, whose message holds more than the phrase
C9_Witness ==
    /\ lrOutcome # None
    /\ The(lrOutcome).macro.raised
    /\ The(lrOutcome).macro.exc.class = "DatabaseException"
    /\ Len(The(lrOutcome).macro.exc.msg) > 4
    /\ ~The(lrOutcome).raised
    /\ The(lrOutcome).value = <<>>

\* ------------------------------------------------ set_relations_cache

LIST_DATABASE_OBJECTS_MACRO_NAME == "snowflake__list_database_objects"
LIST_RELATIONS_MACRO_NAME == "list_relations_without_caching"

D1 == <<"D", "1">>
D2 == <<"D", "2">>

\* the (database, schema) pairs a manifest may ask for: two schemas of D1
\* whose names differ by case only, a third schema of D1, and a schema of D2
\* of the same name
CacheSchemaPairs ==
    { [database |-> D1, schema |-> <<"a">>], [database |-> D1, schema |-> <<"A">>],
      [database |-> D1, schema |-> <<"b">>], [database |-> D2, schema |-> <<"b">>] }

\* _get_cache_schemas(manifest): the schema relations the manifest asks for
Manifests == { m \in SUBSET CacheSchemaPairs : Cardinality(m) <= MaxSchemas }

\* the objects a database may hold
DatabaseObjects(db) ==
    [database_name : {db},
     schema_name : IF db = D1 THEN { <<"a">>, <<"A">>, <<"b">> } ELSE { <<"b">> },
     name : { <<"t">> },
     kind : { <<"T", "A", "B", "L", "E">> }]

\* what a listing of a database may return: some of its objects, in any order
Listings(db) ==
    UNION { { s \in [1..Cardinality(T) -> T] : \A i, j \in DOMAIN s : s[i] = s[j] => i = j } :
            T \in SUBSET DatabaseObjects(db) }

\* the failures of a listing query
ListingExceptions ==
    { [class |-> "DatabaseException", msg |-> <<"Database", "does", "not", "exist">>],
      [class |-> "DatabaseException", msg |-> <<"Statement", "reached", "its", "timeout">>] }

\* the relations cache: relations by lower-cased (database, schema,
\* identifier), and the lower-cased (database, schema) pairs that are known
CacheKey(rel) == <<Lower(rel.database), Lower(rel.schema), Lower(rel.identifier)>>
SchemaKey(database, schema) == <<Lower(database), Lower(schema)>>

\* cache.add(relation): the relation at its key, its schema known
CacheAdd(c, rel) ==
    [relations |-> [k \in DOMAIN c.relations \cup {CacheKey(rel)} |->
                        IF k = CacheKey(rel) THEN rel ELSE c.relations[k]],
     schemas |-> c.schemas \cup {SchemaKey(rel.database, rel.schema)}]

\* cache.clear()
CacheClear == [relations |-> <<>>, schemas |-> {}]

\* cache.update_schemas(pairs)
CacheUpdateSchemas(c, pairs) ==
    [relations |-> c.relations,
     schemas |-> c.schemas \cup { SchemaKey(p[1], p[2]) : p \in pairs }]

\* lines 191-195
SchemaDatabases(cs) == { c.database : c \in cs }
CacheSchemaNamesOf(cs) == { Lower(c.schema) : c \in cs }

\* a faulty variant: only the schemas that received a relation are passed on
CacheUpdatePairsOfAdded(cs) ==
    { <<c.database, c.schema>> :
        c \in { x \in cs : \E o \in added :
                               Lower(o.schema_name) = Lower(x.schema) } }

\* lines 217-219: the pairs given to cache.update_schemas
CacheUpdatePairs(cs) == { <<c.database, c.schema>> : c \in cs }

\* a faulty variant: the object's schema name is compared with its case kept
SelectedCaseKept(database_object, cache_schema_names) ==
    database_object.schema_name \in cache_schema_names

\* line 210: the filter on a listed object
Selected(database_object, cache_schema_names) ==
    Lower(database_object.schema_name) \in cache_schema_names

\* lines 209-212: the objects of one listing, in order
RECURSIVE AddListed(_, _, _)
AddListed(c, rows, names) ==
    IF rows = <<>> THEN c
    ELSE AddListed(IF Selected(Head(rows), names)
                   THEN CacheAdd(c, RowToRelation(Head(rows))) ELSE c,
                   Tail(rows), names)

\* line 203-207: the RuntimeException raised for a failed listing
ListingError(database, exc) ==
    [class |-> "RuntimeException",
     msg |-> <<"Database", "error", "while", "listing", "objects", "in", "database", "\"">>
             \o database \o <<"\"", "\n">> \o StrExc(exc)]

Cache == [relations |-> relations, schemas |-> schemas]

InitCache ==
    /\ relations = <<>>
    /\ schemas = {}
    /\ lockOwner = None
    /\ pc = "idle"
    /\ cache_schemas = {}
    /\ clear = FALSE
    /\ todo = {}
    /\ curDb = None
    /\ queries = <<>>
    /\ listed = {}
    /\ added = {}
    /\ pre = Some([relations |-> <<>>, schemas |-> {}])
    /\ outcome = "none"
    /\ macroExc = None
    /\ error = None
    /\ updates = 0
    /\ readerPc = "waiting"
    /\ NormOff /\ HookOff /\ ListOff

\* a faulty variant: the call runs without taking the cache lock
SetRelationsCacheNoLock ==
    /\ pc = "idle"
    /\ \E m \in Manifests, c \in BOOLEAN :
         /\ cache_schemas' = m
         /\ clear' = c
         /\ relations' = IF c THEN CacheClear.relations ELSE relations
         /\ schemas' = IF c THEN CacheClear.schemas ELSE schemas
         /\ todo' = SchemaDatabases(m)
    /\ UNCHANGED lockOwner
    /\ pc' = "loop"
    /\ pre' = Some(Cache)
    /\ curDb' = None /\ queries' = <<>> /\ listed' = {} /\ added' = {}
    /\ outcome' = "running" /\ macroExc' = None /\ error' = None /\ updates' = 0
    /\ UNCHANGED <<readerPc, normVars, hookVars, listVars>>

\* set_relations_cache(manifest, clear) takes the cache lock, clears the cache
\* when asked to, and starts _relations_cache_for_schemas
SetRelationsCache ==
    /\ pc = "idle"
    /\ lockOwner = None
    /\ \E m \in Manifests, c \in BOOLEAN :
         /\ cache_schemas' = m
         /\ clear' = c
         /\ relations' = IF c THEN CacheClear.relations ELSE relations
         /\ schemas' = IF c THEN CacheClear.schemas ELSE schemas
         /\ todo' = SchemaDatabases(m)
    /\ lockOwner' = Some("writer")
    /\ pc' = "loop"
    /\ pre' = Some(Cache)
    /\ curDb' = None /\ queries' = <<>> /\ listed' = {} /\ added' = {}
    /\ outcome' = "running" /\ macroExc' = None /\ error' = None /\ updates' = 0
    /\ UNCHANGED <<readerPc, normVars, hookVars, listVars>>

\* a faulty variant: the listing is asked of the per-schema macro
ListDatabaseObjectsPerSchema ==
    /\ pc = "loop"
    /\ \E db \in todo :
         /\ todo' = todo \ {db}
         /\ curDb' = Some(db)
         /\ queries' = Append(queries, [macro |-> LIST_RELATIONS_MACRO_NAME,
                                        database |-> db])
    /\ pc' = "query"
    /\ UNCHANGED <<relations, schemas, lockOwner, cache_schemas, clear, listed, added,
                   pre, outcome, macroExc, error, updates, readerPc,
                   normVars, hookVars, listVars>>

\* a faulty variant: the lock is released while the listing query runs
ListDatabaseObjectsUnlocked ==
    /\ pc = "loop"
    /\ \E db \in todo :
         /\ todo' = todo \ {db}
         /\ curDb' = Some(db)
         /\ queries' = Append(queries, [macro |-> LIST_DATABASE_OBJECTS_MACRO_NAME,
                                        database |-> db])
    /\ pc' = "query"
    /\ lockOwner' = None
    /\ UNCHANGED <<relations, schemas, cache_schemas, clear, listed, added,
                   pre, outcome, macroExc, error, updates, readerPc,
                   normVars, hookVars, listVars>>

\* the loop over schema_databases sends the next listing query; the set is
\* iterated in no fixed order
ListDatabaseObjects ==
    /\ pc = "loop"
    /\ \E db \in todo :
         /\ todo' = todo \ {db}
         /\ curDb' = Some(db)
         /\ queries' = Append(queries, [macro |-> LIST_DATABASE_OBJECTS_MACRO_NAME,
                                        database |-> db])
    /\ pc' = "query"
    /\ UNCHANGED <<relations, schemas, lockOwner, cache_schemas, clear, listed, added,
                   pre, outcome, macroExc, error, updates, readerPc,
                   normVars, hookVars, listVars>>

\* the listing returns its rows; the selected ones are added to the cache
ListingReturns ==
    /\ pc = "query"
    /\ \E rows \in Listings(The(curDb)) :
         LET names == CacheSchemaNamesOf(cache_schemas)
             c == AddListed(Cache, rows, names)
         IN  /\ relations' = c.relations
             /\ schemas' = c.schemas
             /\ listed' = listed \cup { rows[i] : i \in DOMAIN rows }
             /\ added' = added \cup { rows[i] : i \in { j \in DOMAIN rows :
                                                         Selected(rows[j], names) } }
    /\ pc' = "loop"
    /\ UNCHANGED <<lockOwner, cache_schemas, clear, todo, curDb, queries, pre, outcome,
                   macroExc, error, updates, readerPc, normVars, hookVars, listVars>>

\* a faulty variant: a failed listing is skipped and the loop goes on
ListingFailsSkipped ==
    /\ pc = "query"
    /\ \E exc \in ListingExceptions : macroExc' = Some(exc)
    /\ pc' = "loop"
    /\ UNCHANGED <<relations, schemas, lockOwner, cache_schemas, clear, todo, curDb,
                   queries, listed, added, pre, outcome, error, updates, readerPc,
                   normVars, hookVars, listVars>>

\* the listing raises a DatabaseException: the call raises RuntimeException,
\* which leaves the with block and so releases the lock
ListingFails ==
    /\ pc = "query"
    /\ \E exc \in ListingExceptions :
         /\ macroExc' = Some(exc)
         /\ error' = Some(ListingError(The(curDb), exc))
    /\ outcome' = "failed"
    /\ lockOwner' = IF lockOwner = Some("writer") THEN None ELSE lockOwner
    /\ pc' = "failed"
    /\ UNCHANGED <<relations, schemas, cache_schemas, clear, todo, curDb, queries,
                   listed, added, pre, updates, readerPc, normVars, hookVars, listVars>>

\* after the loop: update_schemas with every requested pair, then the call
\* returns and releases the lock
UpdateSchemasAndReturn ==
    /\ pc = "loop"
    /\ todo = {}
    /\ schemas' = CacheUpdateSchemas(Cache, CacheUpdatePairs(cache_schemas)).schemas
    /\ updates' = updates + 1
    /\ outcome' = "returned"
    /\ lockOwner' = IF lockOwner = Some("writer") THEN None ELSE lockOwner
    /\ pc' = "returned"
    /\ UNCHANGED <<relations, cache_schemas, clear, todo, curDb, queries, listed, added,
                   pre, macroExc, error, readerPc, normVars, hookVars, listVars>>

\* the caller goes on after the call has returned or raised; what was recorded
\* about that call is dropped, and the cache as it is now is the state before
\* the next call
CallerContinues ==
    /\ pc \in {"returned", "failed"}
    /\ pc' = "idle"
    /\ pre' = Some(Cache)
    /\ cache_schemas' = {} /\ clear' = FALSE /\ todo' = {} /\ curDb' = None
    /\ queries' = <<>> /\ listed' = {} /\ added' = {}
    /\ outcome' = "none" /\ macroExc' = None /\ error' = None /\ updates' = 0
    /\ UNCHANGED <<relations, schemas, lockOwner, readerPc, normVars, hookVars, listVars>>

\* another thread takes the cache lock to read the cache
ReaderAcquire ==
    /\ readerPc = "waiting"
    /\ lockOwner = None
    /\ lockOwner' = Some("reader")
    /\ readerPc' = "reading"
    /\ UNCHANGED <<relations, schemas, pc, cache_schemas, clear, todo, curDb, queries,
                   listed, added, pre, outcome, macroExc, error, updates,
                   normVars, hookVars, listVars>>

ReaderRelease ==
    /\ readerPc = "reading"
    /\ lockOwner' = IF lockOwner = Some("reader") THEN None ELSE lockOwner
    /\ readerPc' = "waiting"
    /\ UNCHANGED <<relations, schemas, pc, cache_schemas, clear, todo, curDb, queries,
                   listed, added, pre, outcome, macroExc, error, updates,
                   normVars, hookVars, listVars>>

NextCache ==
    \/ SetRelationsCache
    \/ ListDatabaseObjects
    \/ ListingReturns
    \/ ListingFails
    \/ UpdateSchemasAndReturn
    \/ CallerContinues
    \/ ReaderAcquire
    \/ ReaderRelease

SpecCache == InitCache /\ [][NextCache]_vars

\* (database, schema) in cache: the pair is a known schema
Known(p) == SchemaKey(p.database, p.schema) \in schemas

\* the relations a cache state holds for a pair
RelationsOf(c, p) ==
    { c.relations[k] : k \in { x \in DOMAIN c.relations :
                                 <<x[1], x[2]>> = SchemaKey(p.database, p.schema) } }

\* the objects the call's listings returned for a pair, by the cache's key
ListedFor(p) ==
    { o \in listed : SchemaKey(o.database_name, o.schema_name)
                       = SchemaKey(p.database, p.schema) }

\* the (database, schema) of a listed object, as listed
PairOf(o) == [database |-> o.database_name, schema |-> o.schema_name]

\* every requested schema is known and every listed object of a requested
\* pair is in the cache
FullyLoaded ==
    /\ \A p \in cache_schemas : Known(p)
    /\ \A o \in listed :
         PairOf(o) \in cache_schemas => CacheKey(RowToRelation(o)) \in DOMAIN relations

C2_KnownAndEmpty ==
    pc = "returned" =>
        \A p \in cache_schemas :
            /\ Known(p)
            /\ ListedFor(p) = {} => RelationsOf(Cache, p) = {}

\* C2 (amended): after a normal return every requested pair is known; a
\* requested pair for which the listings returned no object holds the
\* relations it held before the call, which are none when the call cleared
\* the cache.
C2_KnownAndUntouched ==
    pc = "returned" =>
        \A p \in cache_schemas :
            /\ Known(p)
            /\ ListedFor(p) = {} =>
                 RelationsOf(Cache, p) = IF clear THEN {} ELSE RelationsOf(The(pre), p)

\* a requested schema without objects, not known before, now known and empty,
\* beside a requested schema that received a relation
C2_Witness ==
    /\ pc = "returned"
    /\ relations # <<>>
    /\ \E p \in cache_schemas :
         /\ ListedFor(p) = {}
         /\ SchemaKey(p.database, p.schema) \notin The(pre).schemas
         /\ \A o \in added : SchemaKey(o.database_name, o.schema_name)
                               # SchemaKey(p.database, p.schema)
         /\ Known(p)
         /\ RelationsOf(Cache, p) = {}

\* C3 (as claimed): a listed object is added to the cache exactly when its
\* (database, schema), case kept, is one of the requested pairs.
C3_AddedIffRequested ==
    \A o \in listed : (o \in added) <=> (PairOf(o) \in cache_schemas)

\* C3 (amended): a listed object is added to the cache exactly when its
\* lower-cased schema name is the lower-cased schema name of a requested pair,
\* of whichever requested database; an added object is in the cache and its
\* schema is known.
C3_AddedIffSchemaNameRequested ==
    \A o \in listed :
        /\ (o \in added) <=> (\E p \in cache_schemas : Lower(p.schema) = Lower(o.schema_name))
        /\ o \in added =>
             /\ CacheKey(RowToRelation(o)) \in DOMAIN relations
             /\ Known(PairOf(o))

\* (D1, a) and (D2, b) are requested, and the object in D1.b has been added
C3_Witness ==
    /\ cache_schemas = { [database |-> D1, schema |-> <<"a">>],
                         [database |-> D2, schema |-> <<"b">>] }
    /\ \E o \in added : o.database_name = D1 /\ o.schema_name = <<"b">>
    /\ <<Lower(D1), <<"b">>, <<"t">>>> \in DOMAIN relations

\* C4: the call sends only list-database-objects queries, never two for one
\* database, only for databases of requested schemas, and by the time it
\* returns one for each of them.
C4_OneQueryPerDatabase ==
    /\ \A i \in DOMAIN queries :
         /\ queries[i].macro = LIST_DATABASE_OBJECTS_MACRO_NAME
         /\ queries[i].database \in SchemaDatabases(cache_schemas)
         /\ \A j \in DOMAIN queries : queries[j].database = queries[i].database => i = j
    /\ pc = "returned" =>
         /\ { queries[i].database : i \in DOMAIN queries } = SchemaDatabases(cache_schemas)
         /\ Len(queries) = Cardinality(SchemaDatabases(cache_schemas))

\* a returned call for three schemas in two databases, with two queries
C4_Witness ==
    /\ pc = "returned"
    /\ Cardinality(cache_schemas) > Cardinality(SchemaDatabases(cache_schemas))
    /\ \E p, q \in cache_schemas : p # q /\ p.database = q.database
    /\ Len(queries) = Cardinality(SchemaDatabases(cache_schemas))
    /\ Len(queries) >= 1

\* C7 (as claimed): the cache lock is not held while a listing query is out.
C7_LockFreeDuringQuery ==
    pc = "query" => lockOwner # Some("writer")

\* C7 (amended): the call holds the cache lock from its start, across every
\* listing query, until it returns or raises; a thread that needs the lock
\* meanwhile waits.
C7_LockHeldDuringQuery ==
    pc \in {"loop", "query"} => (lockOwner = Some("writer") /\ readerPc = "waiting")

\* a listing query is out, the lock is held, and the reader waits for it
C7_Witness ==
    /\ pc = "query"
    /\ lockOwner = Some("writer")
    /\ readerPc = "waiting"
    /\ Len(queries) = 2

\* C8: a listing that raises ends the call with a RuntimeException naming the
\* database and holding the error's message; the databases still to list are
\* not listed, update_schemas is not called, and a requested schema is known
\* only if it was before or a relation was added to it.
C8_ListingFailureRaised ==
    /\ macroExc # None <=> pc = "failed"
    /\ pc = "failed" =>
         /\ error # None
         /\ The(error).class = "RuntimeException"
         /\ Contains(The(error).msg, <<"\"">> \o The(curDb) \o <<"\"">>)
         /\ Contains(The(error).msg, The(macroExc).msg)
         /\ queries[Len(queries)].database = The(curDb)
         /\ \A db \in todo : \A i \in DOMAIN queries : queries[i].database # db
         /\ updates = 0
         /\ \A p \in cache_schemas :
              Known(p) =>
                \/ ~clear /\ SchemaKey(p.database, p.schema) \in The(pre).schemas
                \/ \E o \in added : SchemaKey(o.database_name, o.schema_name)
                                      = SchemaKey(p.database, p.schema)
    /\ pc # "failed" => error = None

\* the first of two listings failed: the other database was never listed and
\* a requested schema is left unknown
C8_Witness ==
    /\ pc = "failed"
    /\ todo # {}
    /\ Len(queries) = 1
    /\ \E p \in cache_schemas : ~Known(p)

====
